---- MODULE Spec2Model ----
(***************************************************************************)
(* Stock ledger of the jewellery inventory backend                         *)
(* (src/routes/productRoutes.js, src/models/Product.js and the            *)
(* TransactionLog schema of src/unnamed/part_002).                         *)
(*                                                                         *)
(* Every route handler is an async function: each `await` on a storage     *)
(* call is a point where another request may run.  A request is therefore  *)
(* a small program with a pc, and one action of this module is one         *)
(* stretch of a handler between two awaits, together with the storage      *)
(* call it ends in.                                                        *)
(*                                                                         *)
(* Time is counted in ticks of 30 minutes since a UTC midnight, the        *)
(* largest unit that divides both a day and the +05:30 offset of           *)
(* Asia/Kolkata.  Within one tick the construction order of the documents  *)
(* (their _id) stands for the milliseconds.                                *)
(***************************************************************************)
EXTENDS Integers, Sequences, FiniteSets, TLC

VARIABLES
  now,          \* the clock: the instant `new Date()` / Date.now returns
  hostOffset,   \* UTC offset of the server host's timezone (ticks)
  caller,       \* verified role of the caller whose requests the run is made of
  products,     \* the Product collection: _id -> document
  logs,         \* the TransactionLog collection: _id -> document
  nextProductId,\* ObjectId source for Product documents
  nextLogId,    \* ObjectId source for TransactionLog documents
  reqs,         \* requests being served: slot -> handler state
  resp,         \* status code of the response the latest step sent (0: none)
  exported,     \* the export the latest step sent: selector and rows (ids)
  maxInFlight,  \* how many requests the run lets overlap
  budget,       \* what the run may still see: requests to create, events
                \* (requests that reach a handler, storage failures, clock
                \* advances) in all; and whether a storage call has failed
  hist          \* history (ghost): what was asked of each product so far

vars == <<now, hostOffset, caller, products, logs, nextProductId, nextLogId, reqs,
          resp, exported, maxInFlight, budget, hist>>

-----------------------------------------------------------------------------
(* Bounds of the model *)

MaxAdds      == 2   \* POST /add requests of a run
MaxEventsSeq == 4   \* requests, storage failures and clock advances of a
                    \* run that serves one request at a time
MaxEvents    == 3   \* the same, of a run whose requests overlap
MaxEventsSku == 2   \* the same, of a run on a store that is already filled
MaxStored    == 100 \* creates a store may have seen when such a run begins
MaxEventsStocked == 4 \* the same, of a run on a store with one product
StartTime   == 30   \* first instant of a run: 15:00 UTC = 20:30 IST
TickStep    == 9    \* a clock advance: 4 h 30 min

Quantities  == {10}                      \* req.body.quantity of POST /add
StockedQuantities == {2, 10}             \* the same, of a product in store
Deltas      == {<<5, 0>>, <<0, 3>>, <<-1, 0>>}                \* <<addQty, sellQty>>
LowQuantities == {2}                     \* req.body.lowQuantity of POST /add
Names       == {<<"N", "e", "c", "k", "l", "a", "c", "e">>}   \* req.body.name
Roles       == {"admin", "staff", "none"}   \* verified role of the caller
HostOffsets == {0, 11, 18}               \* UTC, Asia/Kolkata, UTC+9

(* Program constants *)
DayLen    == 48     \* 24 h in ticks
ISTOffset == 11     \* Asia/Kolkata = UTC + 5 h 30 min

Slots == {1, 2}                          \* two handlers may run at a time
NULL  == [_id |-> 0]                     \* JavaScript null / no document

-----------------------------------------------------------------------------
(* Dates *)

\* calendar day (business timezone) that contains instant t
ISTDay(t) == (t + ISTOffset) \div DayLen

\* new Date().toLocaleString("en-US", {timeZone: "Asia/Kolkata"}):
\* the wall-clock reading of instant t in Asia/Kolkata, without a zone
ToLocaleStringIST(t) == t + ISTOffset

\* new Date(string) for a string without zone: the instant at which the
\* HOST's wall clock shows that reading
ParseLocal(wall, h) == wall - h

\* date.setHours(...) to time-of-day tod: same calendar day of the HOST zone
SetHours(inst, tod, h) == (((inst + h) \div DayLen) * DayLen + tod) - h

StartOfDay(t, h) == SetHours(ParseLocal(ToLocaleStringIST(t), h), 0, h)
EndOfDay(t, h)   == SetHours(ParseLocal(ToLocaleStringIST(t), h), DayLen - 1, h)

-----------------------------------------------------------------------------
(* Strings: a string is the sequence of its characters *)

Lower  == <<"a","b","c","d","e","f","g","h","i","j","k","l","m",
            "n","o","p","q","r","s","t","u","v","w","x","y","z">>
Upper  == <<"A","B","C","D","E","F","G","H","I","J","K","L","M",
            "N","O","P","Q","R","S","T","U","V","W","X","Y","Z">>
Digits == <<"0","1","2","3","4","5","6","7","8","9">>

IndexIn(c, alphabet) ==
  IF \E i \in DOMAIN alphabet : alphabet[i] = c
    THEN CHOOSE i \in DOMAIN alphabet : alphabet[i] = c
    ELSE 0

Chars == {Lower[i] : i \in DOMAIN Lower} \cup {Upper[i] : i \in DOMAIN Upper}
           \cup {Digits[i] : i \in DOMAIN Digits}

\* code unit of a character
Ord ==
  [c \in Chars |->
     IF IndexIn(c, Digits) > 0 THEN 47 + IndexIn(c, Digits)
     ELSE IF IndexIn(c, Upper) > 0 THEN 64 + IndexIn(c, Upper)
     ELSE 96 + IndexIn(c, Lower)]

\* upper-case form of a character
UpperOf ==
  [c \in Chars |->
     IF IndexIn(c, Lower) > 0 THEN Upper[IndexIn(c, Lower)] ELSE c]

\* String.prototype.toUpperCase
ToUpperCase(str) == [i \in DOMAIN str |-> UpperOf[str[i]]]

\* String.prototype.slice(from, to) with 0-based bounds
Slice(str, from, to) ==
  LET hi == IF to < Len(str) THEN to ELSE Len(str)
  IN  IF from >= hi THEN <<>> ELSE SubSeq(str, from + 1, hi)

\* binary string order (the order of a sort on a string field)
RECURSIVE StrLess(_, _)
StrLess(a, b) ==
  IF a = <<>> THEN b # <<>>
  ELSE IF b = <<>> THEN FALSE
  ELSE IF Ord[Head(a)] # Ord[Head(b)] THEN Ord[Head(a)] < Ord[Head(b)]
  ELSE StrLess(Tail(a), Tail(b))

\* parseInt(str): the leading decimal digits; NaN (here -1) when there are none
RECURSIVE ParseDigits(_, _)
ParseDigits(str, acc) ==
  IF str = <<>> \/ IndexIn(Head(str), Digits) = 0 THEN acc
  ELSE ParseDigits(Tail(str), 10 * acc + IndexIn(Head(str), Digits) - 1)

ParseInt(str) ==
  IF str = <<>> \/ IndexIn(Head(str), Digits) = 0 THEN -1
  ELSE ParseDigits(str, 0)

\* Number.prototype.toString of a natural number
RECURSIVE NumberToString(_)
NumberToString(n) ==
  IF n < 10 THEN <<Digits[n + 1]>>
  ELSE NumberToString(n \div 10) \o <<Digits[(n % 10) + 1]>>

\* String.prototype.padStart(width, "0")
RECURSIVE PadStart(_, _)
PadStart(str, width) ==
  IF Len(str) >= width THEN str ELSE PadStart(<<"0">> \o str, width)

\* new RegExp(`^${initials}`, "i").test(str)
StartsWithNoCase(str, initials) ==
  /\ Len(str) >= Len(initials)
  /\ ToUpperCase(SubSeq(str, 1, Len(initials))) = ToUpperCase(initials)

-----------------------------------------------------------------------------
(* Storage layer (mongoose) *)

Range(f) == {f[x] : x \in DOMAIN f}

\* (variant) a fresh Product document that counts the creation quantity as
\* added stock
NewProductAdded(id, name, sku, quantity, lowQuantity) ==
  [_id |-> id, name |-> ToUpperCase(name), sku |-> sku, quantity |-> quantity,
   lowQuantity |-> lowQuantity,
   openingQty |-> quantity, addedQty |-> quantity, soldQty |-> 0,
   closingQty |-> quantity, isActive |-> TRUE]

\* a fresh Product document as POST /add builds it
NewProduct(id, name, sku, quantity, lowQuantity) ==
  [_id |-> id, name |-> ToUpperCase(name), sku |-> sku, quantity |-> quantity,
   lowQuantity |-> lowQuantity,
   openingQty |-> quantity, addedQty |-> 0, soldQty |-> 0,
   closingQty |-> quantity, isActive |-> TRUE]

\* a fresh TransactionLog document; date defaults to Date.now at construction
\* (updatedAt is set by the save)
NewTransactionLog(id, pid, t, opening, added, sold, closing, remarks) ==
  [_id |-> id, productId |-> pid, date |-> t, updatedAt |-> t,
   openingQty |-> opening, addedQty |-> added, soldQty |-> sold,
   closingQty |-> closing, remarks |-> remarks]

\* (variant) a save that adds the call's own change to what is stored,
\* as an atomic $inc would
SaveIncremented(stored, loaded, local) ==
  [f \in DOMAIN stored |->
     IF local[f] = loaded[f] THEN stored[f]
     ELSE IF f \in {"isActive", "name", "sku"} THEN local[f]
     ELSE stored[f] + (local[f] - loaded[f])]

\* doc.save() of a document that was loaded from the collection: mongoose
\* sends $set for the paths whose assigned value differs from the loaded one
SaveModified(stored, loaded, local) ==
  [f \in DOMAIN stored |-> IF local[f] # loaded[f] THEN local[f] ELSE stored[f]]

\* {timestamps: true}: a save that writes sets updatedAt to the instant t of
\* the save
Stamp(doc, t) == [doc EXCEPT !.updatedAt = t]

\* order of sort({date: -1})
Later(r1, r2) ==
  \/ r1.date > r2.date
  \/ r1.date = r2.date /\ r1._id > r2._id

LogsOf(pid) == {r \in Range(logs) : r.productId = pid}

\* TransactionLog.findOne({productId, date: {$gte, $lte}}): the matching rows
TodayMatches(pid, t, h) ==
  {r \in LogsOf(pid) : r.date >= StartOfDay(t, h) /\ r.date <= EndOfDay(t, h)}

\* TransactionLog.findOne({productId}).sort({date: -1})
LastTxn(pid) ==
  IF LogsOf(pid) = {} THEN NULL
  ELSE CHOOSE r \in LogsOf(pid) : \A r2 \in LogsOf(pid) : r2 = r \/ Later(r, r2)

\* Product.findOne({sku: /^initials/i}).sort({sku: -1}): the candidates, that
\* is the matching products whose sku no other matching product exceeds
LastProductsIn(stored, initials) ==
  LET found == {p \in stored : StartsWithNoCase(p.sku, initials)}
  IN  {p \in found : \A p2 \in found : ~StrLess(p.sku, p2.sku)}

LastProducts(initials) == LastProductsIn(Range(products), initials)

\* `${initials}${nextNumber.toString().padStart(2, "0")}`
FormatSKU(initials, nextNumber) ==
  initials \o PadStart(NumberToString(nextNumber), 2)

\* the sku generateSKU(name) returns when the lookup gave lastProduct
NextSKU(name, lastProduct) ==
  LET initials == ToUpperCase(Slice(name, 0, 2))
      existingNumber ==
        IF ParseInt(Slice(lastProduct.sku, 2, Len(lastProduct.sku))) > 0
          THEN ParseInt(Slice(lastProduct.sku, 2, Len(lastProduct.sku)))
          ELSE 0
      nextNumber == IF lastProduct = NULL THEN 1 ELSE existingNumber + 1
  IN  FormatSKU(initials, nextNumber)

-----------------------------------------------------------------------------
(* Requests *)

Idle ==
  [op |-> "none", pc |-> "idle", id |-> 0, addQty |-> 0,
   sellQty |-> 0, name |-> <<>>, quantity |-> 0, lowQuantity |-> 0, sku |-> <<>>, day |-> 0,
   product |-> NULL, loadedTxn |-> NULL,
   todayTxn |-> NULL, isNew |-> FALSE, hadLast |-> FALSE]

Free(s)   == reqs[s].pc = "idle"
InFlight  == {s \in Slots : ~Free(s)}

\* a new request takes the lowest free slot
CanStart(s) ==
  /\ Free(s)
  /\ \A s2 \in Slots : s2 < s => ~Free(s2)
  /\ Cardinality(InFlight) < maxInFlight

\* no export was sent
NoExport == [type |-> "none", rows |-> {}]

\* res.status(code).json(...): the handler is over
Respond(s, code) ==
  /\ reqs' = [reqs EXCEPT ![s] = Idle]
  /\ resp' = code
  /\ exported' = NoExport

\* the handler goes on to its next await with local state r
Continue(s, r) ==
  /\ reqs' = [reqs EXCEPT ![s] = r]
  /\ resp' = 0
  /\ exported' = NoExport

Goto(s, pc) == Continue(s, [reqs[s] EXCEPT !.pc = pc])

\* (variant) route declarations that open the admin routes to staff
AllowedLax(route) ==
  CASE route \in {"add", "update", "export", "soft-delete", "restore", "delete"}
                                                        -> {"admin", "staff"}
    [] route = "list"                                   -> Roles

\* the roles a route is declared for: auth([...]) of the route, none for the
\* public list routes
Allowed(route) ==
  CASE route \in {"add", "update", "export"}            -> {"admin", "staff"}
    [] route \in {"soft-delete", "restore", "delete"}   -> {"admin"}
    [] route = "list"                                   -> Roles

Routes == {"add", "update", "export", "soft-delete", "restore", "delete", "list"}

NewHist(name, doc, t) ==
  [q0 |-> doc.quantity, name |-> name, doc |-> doc, cday |-> ISTDay(t), calls |-> 0, ok |-> 0,
   neg |-> FALSE, adds |-> 0, sells |-> 0, days |-> {}, first |-> <<>>,
   last |-> <<>>, prev |-> <<>>, lastDelta |-> <<>>, archived |-> 0,
   restored |-> 0, logged |-> 0, torn |-> 0]

-----------------------------------------------------------------------------
(* The clock *)

Tick ==
  /\ budget.events > 0
  /\ now' = now + TickStep
  /\ budget' = [budget EXCEPT !.events = @ - 1]
  /\ resp' = 0
  /\ exported' = NoExport
  /\ UNCHANGED <<hostOffset, caller, products, logs, nextProductId, nextLogId, reqs,
                 maxInFlight, hist>>

-----------------------------------------------------------------------------
(* The auth middleware and the public list routes *)

\* auth(roles): a caller without a verified role is refused with 401, a caller
\* whose role the route is not declared for with 403; the handler is not run
AuthReject(s, route) ==
  /\ CanStart(s)
  /\ caller \notin Allowed(route)
  /\ resp' = IF caller = "none" THEN 401 ELSE 403
  /\ exported' = NoExport
  /\ UNCHANGED <<now, hostOffset, caller, products, logs, nextProductId, nextLogId, reqs,
                 maxInFlight, budget, hist>>

\* GET /, /archived, /all: await Product.find(...); res.json(products)
List(s) ==
  /\ CanStart(s)
  /\ caller \in Allowed("list")
  /\ budget.events > 0
  /\ budget' = [budget EXCEPT !.events = @ - 1]
  /\ resp' = 200
  /\ exported' = NoExport
  /\ UNCHANGED <<now, hostOffset, caller, products, logs, nextProductId,
                 nextLogId, reqs, maxInFlight, hist>>

-----------------------------------------------------------------------------
(* GET /export, GET /export-pdf *)

ExportTypes   == {"today", "yesterday", "all"}     \* req.query.type
ExportFormats == {"xlsx", "pdf"}                   \* /export, /export-pdf

\* currentIST.getUTCFullYear / getUTCMonth / getUTCDate of an instant: the
\* UTC calendar day that contains it
UTCDate(ms) == ms \div DayLen

\* Date.UTC(year, month, date, 0, 0, 0, 0): the instant that day starts in UTC
DateUTC(day) == day * DayLen

\* startOfISTTodayUTC_MS: Date.UTC of the date parts of now + IST offset,
\* minus the IST offset
StartOfISTTodayUTC(t) == DateUTC(UTCDate(t + ISTOffset)) - ISTOffset

\* (variant) "yesterday" as the 24 hours that end now
ExportRangeRolling(type, t) ==
  CASE type = "yesterday" -> [set |-> TRUE, startDate |-> t - DayLen,
                              endDate |-> t]
    [] type = "today"     -> [set |-> TRUE, startDate |-> StartOfISTTodayUTC(t),
                              endDate |-> t]
    [] OTHER              -> [set |-> FALSE, startDate |-> 0, endDate |-> 0]

\* the switch on type: startDate and endDate, or neither (default: all data)
ExportRange(type, t) ==
  CASE type = "yesterday" -> [set |-> TRUE,
                              startDate |-> StartOfISTTodayUTC(t) - DayLen,
                              endDate |-> StartOfISTTodayUTC(t) - 1]
    [] type = "today"     -> [set |-> TRUE, startDate |-> StartOfISTTodayUTC(t),
                              endDate |-> t]
    [] OTHER              -> [set |-> FALSE, startDate |-> 0, endDate |-> 0]

\* { $match: filter } with filter.updatedAt = { $gte: startDate, $lte: endDate }
\* when both dates are set
ExportMatch(rows, range) ==
  {r \in rows : range.set =>
                  (r.updatedAt >= range.startDate /\ r.updatedAt <= range.endDate)}

\* the export handler: range from the clock, aggregate, 404 for an empty
\* result, else the file with one line per matched row
Export(s, format, type) ==
  /\ CanStart(s) /\ caller \in Allowed("export")
  /\ budget.events > 0
  /\ budget' = [budget EXCEPT !.events = @ - 1]
  /\ LET matched == ExportMatch(Range(logs), ExportRange(type, now))
     IN  /\ resp' = IF matched = {} THEN 404 ELSE 200
         /\ exported' = [type |-> type, rows |-> {r._id : r \in matched}]
  /\ UNCHANGED <<now, hostOffset, caller, products, logs, nextProductId,
                 nextLogId, reqs, maxInFlight, hist>>

\* TransactionLog.aggregate rejects: catch (err) -> 500
ExportFault(s) ==
  /\ CanStart(s) /\ caller \in Allowed("export")
  /\ budget.events > 0
  /\ budget' = [budget EXCEPT !.events = @ - 1, !.faulted = TRUE]
  /\ resp' = 500
  /\ exported' = NoExport
  /\ UNCHANGED <<now, hostOffset, caller, products, logs, nextProductId,
                 nextLogId, reqs, maxInFlight, hist>>

-----------------------------------------------------------------------------
(* POST /add *)

\* the request arrives; req.body is destructured
AddStart(s, name, quantity, lowQuantity) ==
  /\ CanStart(s) /\ caller \in Allowed("add")
  /\ budget.adds > 0 /\ budget.events > 0
  /\ budget' = [budget EXCEPT !.adds = @ - 1, !.events = @ - 1]
  /\ reqs' = [reqs EXCEPT ![s] = [Idle EXCEPT !.op = "add", !.pc = "add_sku",
                                              !.name = name,
                                              !.quantity = quantity,
                                              !.lowQuantity = lowQuantity]]
  /\ resp' = 0
  /\ exported' = NoExport
  /\ UNCHANGED <<now, hostOffset, caller, products, logs, nextProductId, nextLogId,
                 maxInFlight, hist>>

\* await generateSKU(name), then new Product({...})
AddGenerateSKU(s) ==
  /\ reqs[s].pc = "add_sku"
  /\ LET found == LastProducts(ToUpperCase(Slice(reqs[s].name, 0, 2)))
     IN  \E lastProduct \in IF found = {} THEN {NULL} ELSE found :
           reqs' = [reqs EXCEPT ![s].sku = NextSKU(reqs[s].name, lastProduct),
                                ![s].pc = "add_saveProduct"]
  /\ resp' = 0
  /\ exported' = NoExport
  /\ UNCHANGED <<now, hostOffset, caller, products, logs, nextProductId, nextLogId,
                 maxInFlight, budget, hist>>

\* (variant) await product.save() under a unique index on sku: the insert of
\* a sku that is already stored is rejected (catch -> 400)
AddSaveProductUnique(s) ==
  /\ reqs[s].pc = "add_saveProduct"
  /\ LET id == nextProductId
         p  == NewProduct(id, reqs[s].name, reqs[s].sku, reqs[s].quantity,
                           reqs[s].lowQuantity)
     IN  IF \E p2 \in Range(products) : p2.sku = p.sku
           THEN /\ Respond(s, 400)
                /\ UNCHANGED <<products, nextProductId, hist>>
           ELSE /\ products' = (id :> p) @@ products
                /\ nextProductId' = id + 1
                /\ hist' = (id :> NewHist(reqs[s].name, p, now)) @@ hist
                /\ Continue(s, [reqs[s] EXCEPT !.id = id, !.product = p,
                                                !.pc = "add_saveLog"])
  /\ UNCHANGED <<now, hostOffset, caller, logs, nextLogId, maxInFlight, budget>>

\* await product.save()
AddSaveProduct(s) ==
  /\ reqs[s].pc = "add_saveProduct"
  /\ LET id == nextProductId
         p  == NewProduct(id, reqs[s].name, reqs[s].sku, reqs[s].quantity,
                           reqs[s].lowQuantity)
     IN  /\ products' = (id :> p) @@ products
         /\ nextProductId' = id + 1
         /\ hist' = (id :> NewHist(reqs[s].name, p, now)) @@ hist
         /\ reqs' = [reqs EXCEPT ![s].id = id, ![s].product = p,
                                 ![s].pc = "add_saveLog"]
  /\ resp' = 0
  /\ exported' = NoExport
  /\ UNCHANGED <<now, hostOffset, caller, logs, nextLogId, maxInFlight, budget>>

\* await new TransactionLog({... "Initial stock entry"}).save(); 201
AddSaveLog(s) ==
  /\ reqs[s].pc = "add_saveLog"
  /\ LET q == reqs[s].quantity
         r == NewTransactionLog(nextLogId, reqs[s].id, now, q, 0, 0, q,
                                "Initial stock entry")
     IN  /\ logs' = (r._id :> Stamp(r, now)) @@ logs
         /\ nextLogId' = nextLogId + 1
  /\ Respond(s, 201)
  /\ UNCHANGED <<now, hostOffset, caller, products, nextProductId, maxInFlight,
                 budget, hist>>

\* a storage call of POST /add rejects: catch (err) -> 400
AddFault(s) ==
  /\ reqs[s].pc \in {"add_sku", "add_saveProduct", "add_saveLog"}
  /\ budget.events > 0
  /\ budget' = [budget EXCEPT !.events = @ - 1, !.faulted = TRUE]
  /\ Respond(s, 400)
  /\ UNCHANGED <<now, hostOffset, caller, products, logs, nextProductId, nextLogId,
                 maxInFlight, hist>>

-----------------------------------------------------------------------------
(* PUT /update/:id *)

\* opening balance of a new day's row
ResolveOpening(lastTxn, product) ==
  IF lastTxn # NULL THEN lastTxn.closingQty ELSE product.quantity

\* (variant) a new day's row that takes the closing balance as its opening
NewDayTxnSlip(id, product, lastTxn, t, addQty, sellQty) ==
  LET openingQty == ResolveOpening(lastTxn, product)
      closingQty == openingQty + addQty - sellQty
  IN  NewTransactionLog(id, product._id, t, closingQty, addQty, sellQty,
                        closingQty, "New day transaction")

\* the row of the "new day" branch
NewDayTxn(id, product, lastTxn, t, addQty, sellQty) ==
  LET openingQty == ResolveOpening(lastTxn, product)
      closingQty == openingQty + addQty - sellQty
  IN  NewTransactionLog(id, product._id, t, openingQty, addQty, sellQty,
                        closingQty, "New day transaction")

\* the "merge" branch applied to the row that was found
MergeTxn(txn, addQty, sellQty) ==
  LET added == txn.addedQty + addQty
      sold  == txn.soldQty + sellQty
  IN  [txn EXCEPT !.addedQty = added, !.soldQty = sold,
                  !.closingQty = txn.openingQty + added - sold]

\* the snapshot fields of the product, copied from the row
SnapshotFrom(product, txn) ==
  [product EXCEPT !.openingQty = txn.openingQty, !.addedQty = txn.addedQty,
                  !.soldQty = txn.soldQty, !.closingQty = txn.closingQty,
                  !.quantity = txn.closingQty]

\* a save() with no modified path sends nothing
Unmodified(loaded, local) == \A f \in DOMAIN loaded : local[f] = loaded[f]

\* the request arrives; req.body is destructured
UpdStart(s, id, d) ==
  /\ CanStart(s) /\ caller \in Allowed("update")
  /\ budget.events > 0
  /\ budget' = [budget EXCEPT !.events = @ - 1]
  /\ reqs' = [reqs EXCEPT ![s] = [Idle EXCEPT !.op = "update", !.id = id,
                                   !.pc = "upd_findProduct",
                                   !.addQty = d[1], !.sellQty = d[2]]]
  /\ resp' = 0
  /\ exported' = NoExport
  /\ UNCHANGED <<now, hostOffset, caller, products, logs, nextProductId, nextLogId,
                 maxInFlight, hist>>

\* variant: the lookup skips archived products, as a route that served only
\* the active catalogue would
UpdFindProductActive(s) ==
  /\ reqs[s].pc = "upd_findProduct"
  /\ IF reqs[s].id \in DOMAIN products /\ products[reqs[s].id].isActive
       THEN /\ Continue(s, [reqs[s] EXCEPT !.product = products[reqs[s].id],
                                             !.pc = "upd_findToday"])
            /\ hist' = [hist EXCEPT
                          ![reqs[s].id].calls = @ + 1,
                          ![reqs[s].id].neg =
                             @ \/ reqs[s].addQty < 0 \/ reqs[s].sellQty < 0]
       ELSE /\ Respond(s, 404)
            /\ hist' = hist
  /\ UNCHANGED <<now, hostOffset, caller, products, logs, nextProductId, nextLogId,
                 maxInFlight, budget>>

\* await Product.findById(req.params.id); 404 when there is none
UpdFindProduct(s) ==
  /\ reqs[s].pc = "upd_findProduct"
  /\ IF reqs[s].id \in DOMAIN products
       THEN /\ Continue(s, [reqs[s] EXCEPT !.product = products[reqs[s].id],
                                             !.pc = "upd_findToday"])
            /\ hist' = [hist EXCEPT
                          ![reqs[s].id].calls = @ + 1,
                          ![reqs[s].id].neg =
                             @ \/ reqs[s].addQty < 0 \/ reqs[s].sellQty < 0]
       ELSE /\ Respond(s, 404)
            /\ hist' = hist
  /\ UNCHANGED <<now, hostOffset, caller, products, logs, nextProductId, nextLogId,
                 maxInFlight, budget>>

\* the day window of `new Date()`, then await TransactionLog.findOne(window);
\* a row that is found is merged at once
UpdFindToday(s) ==
  /\ reqs[s].pc = "upd_findToday"
  /\ LET id      == reqs[s].id
         matches == TodayMatches(id, now, hostOffset)
     IN  /\ IF matches = {}
              THEN reqs' = [reqs EXCEPT ![s].day = ISTDay(now),
                                        ![s].pc = "upd_findLast"]
              ELSE \E r \in matches :
                     reqs' = [reqs EXCEPT
                                ![s].day = ISTDay(now),
                                ![s].loadedTxn = r,
                                ![s].todayTxn =
                                   MergeTxn(r, reqs[s].addQty, reqs[s].sellQty),
                                ![s].pc = "upd_saveTxn"]
         /\ hist' = [hist EXCEPT ![id].days = @ \cup {ISTDay(now)}]
  /\ resp' = 0
  /\ exported' = NoExport
  /\ UNCHANGED <<now, hostOffset, caller, products, logs, nextProductId, nextLogId,
                 maxInFlight, budget>>

\* await TransactionLog.findOne({productId}).sort({date: -1}), then
\* new TransactionLog({...}) stamped with the current instant
UpdFindLast(s) ==
  /\ reqs[s].pc = "upd_findLast"
  /\ LET lastTxn == LastTxn(reqs[s].id)
     IN  reqs' = [reqs EXCEPT
                    ![s].todayTxn = NewDayTxn(nextLogId, reqs[s].product,
                                              lastTxn, now, reqs[s].addQty,
                                              reqs[s].sellQty),
                    ![s].isNew = TRUE,
                    ![s].hadLast = (lastTxn # NULL),
                    ![s].pc = "upd_saveTxn"]
  /\ nextLogId' = nextLogId + 1
  /\ resp' = 0
  /\ exported' = NoExport
  /\ UNCHANGED <<now, hostOffset, caller, products, logs, nextProductId, maxInFlight,
                 budget, hist>>

\* what the history keeps of a movement whose row is written
RowWritten(h, day, txn, delta) ==
  [h EXCEPT !.first = IF @ = <<>> THEN <<txn.openingQty>> ELSE @,
            !.prev  = h.last,
            !.last  = <<day, txn._id>>,
            !.lastDelta = delta,
            !.logged = @ + delta[1] - delta[2]]

\* await todayTxn.save(): insert of a new row, $set of the modified paths of
\* a loaded one (DocumentNotFoundError when the row is gone)
UpdSaveTxn(s) ==
  /\ reqs[s].pc = "upd_saveTxn"
  /\ LET txn == reqs[s].todayTxn
         id  == reqs[s].id
     IN  IF reqs[s].isNew
           THEN /\ logs' = (txn._id :> Stamp(txn, now)) @@ logs
                /\ Goto(s, "upd_saveProduct")
                /\ hist' = [hist EXCEPT ![id] = RowWritten(@, reqs[s].day, txn,
                                                        <<reqs[s].addQty,
                                                          reqs[s].sellQty>>)]
           ELSE IF txn._id \in DOMAIN logs
             THEN /\ logs' = [logs EXCEPT ![txn._id] =
                                IF Unmodified(reqs[s].loadedTxn, txn) THEN @
                                ELSE Stamp(SaveModified(@, reqs[s].loadedTxn,
                                                        txn), now)]
                  /\ Goto(s, "upd_saveProduct")
                  /\ hist' = [hist EXCEPT ![id] = RowWritten(@, reqs[s].day, txn,
                                                        <<reqs[s].addQty,
                                                          reqs[s].sellQty>>)]
             ELSE /\ logs' = logs
                  /\ hist' = hist
                  /\ IF Unmodified(reqs[s].loadedTxn, txn)
                       THEN Goto(s, "upd_saveProduct")
                       ELSE Respond(s, 400)
  /\ UNCHANGED <<now, hostOffset, caller, products, nextProductId, nextLogId,
                 maxInFlight, budget>>

\* the snapshot assignments, await product.save(), 200
UpdSaveProduct(s) ==
  /\ reqs[s].pc = "upd_saveProduct"
  /\ LET id     == reqs[s].id
         loaded == reqs[s].product
         local  == SnapshotFrom(loaded, reqs[s].todayTxn)
     IN  IF id \in DOMAIN products
           THEN /\ products' = [products EXCEPT ![id] =
                                  SaveModified(@, loaded, local)]
                /\ Respond(s, 200)
                /\ hist' = [hist EXCEPT ![id].ok = @ + 1,
                                        ![id].adds = @ + reqs[s].addQty,
                                        ![id].sells = @ + reqs[s].sellQty,
                                        ![id].torn = IF @ = 1 THEN 2 ELSE @]
           ELSE /\ products' = products
                /\ hist' = hist
                /\ Respond(s, IF Unmodified(loaded, local) THEN 200 ELSE 400)
  /\ UNCHANGED <<now, hostOffset, caller, logs, nextProductId, nextLogId, maxInFlight,
                 budget>>

\* a storage call of PUT /update/:id rejects: catch (err) -> 400
UpdFault(s) ==
  /\ reqs[s].pc \in {"upd_findProduct", "upd_findToday", "upd_findLast",
                     "upd_saveTxn", "upd_saveProduct"}
  /\ budget.events > 0
  /\ budget' = [budget EXCEPT !.events = @ - 1, !.faulted = TRUE]
  /\ Respond(s, 400)
  /\ hist' = IF reqs[s].pc = "upd_saveProduct" /\ reqs[s].id \in DOMAIN hist
               THEN [hist EXCEPT ![reqs[s].id].torn = 1]
               ELSE hist
  /\ UNCHANGED <<now, hostOffset, caller, products, logs, nextProductId, nextLogId,
                 maxInFlight>>

-----------------------------------------------------------------------------
(* PUT /soft-delete/:id, PUT /restore/:id *)

SoftDeleteStart(s, id) ==
  /\ CanStart(s) /\ caller \in Allowed("soft-delete")
  /\ budget.events > 0
  /\ budget' = [budget EXCEPT !.events = @ - 1]
  /\ reqs' = [reqs EXCEPT ![s] = [Idle EXCEPT !.op = "soft-delete", !.id = id,
                                              !.pc = "soft_find"]]
  /\ resp' = 0
  /\ exported' = NoExport
  /\ UNCHANGED <<now, hostOffset, caller, products, logs, nextProductId, nextLogId,
                 maxInFlight, hist>>

RestoreStart(s, id) ==
  /\ CanStart(s) /\ caller \in Allowed("restore")
  /\ budget.events > 0
  /\ budget' = [budget EXCEPT !.events = @ - 1]
  /\ reqs' = [reqs EXCEPT ![s] = [Idle EXCEPT !.op = "restore", !.id = id,
                                              !.pc = "restore_find"]]
  /\ resp' = 0
  /\ exported' = NoExport
  /\ UNCHANGED <<now, hostOffset, caller, products, logs, nextProductId, nextLogId,
                 maxInFlight, hist>>

\* (variant) a lookup that reports success when there is no such product
FindForFlagQuiet(s, pcFind, pcSave) ==
  /\ reqs[s].pc = pcFind
  /\ IF reqs[s].id \in DOMAIN products
       THEN Continue(s, [reqs[s] EXCEPT !.product = products[reqs[s].id],
                                        !.pc = pcSave])
       ELSE Respond(s, 200)
  /\ UNCHANGED <<now, hostOffset, caller, products, logs, nextProductId, nextLogId,
                 maxInFlight, budget, hist>>

\* await Product.findById(req.params.id); 404 when there is none
FindForFlag(s, pcFind, pcSave) ==
  /\ reqs[s].pc = pcFind
  /\ IF reqs[s].id \in DOMAIN products
       THEN Continue(s, [reqs[s] EXCEPT !.product = products[reqs[s].id],
                                        !.pc = pcSave])
       ELSE Respond(s, 404)
  /\ UNCHANGED <<now, hostOffset, caller, products, logs, nextProductId, nextLogId,
                 maxInFlight, budget, hist>>

\* (variant) an assignment that also writes off the stock
SetFlagReset(loaded, flag) ==
  [loaded EXCEPT !.isActive = flag, !.quantity = 0, !.closingQty = 0]

\* product.isActive = flag
SetFlag(loaded, flag) == [loaded EXCEPT !.isActive = flag]

\* product.isActive = flag; await product.save(); 200
SaveFlag(s, pcSave, flag) ==
  /\ reqs[s].pc = pcSave
  /\ LET id     == reqs[s].id
         loaded == reqs[s].product
         local  == SetFlag(loaded, flag)
     IN  IF id \in DOMAIN products
           THEN /\ products' = [products EXCEPT ![id] =
                                  SaveModified(@, loaded, local)]
                /\ Respond(s, 200)
                /\ hist' = IF flag THEN [hist EXCEPT ![id].restored = 1]
                                   ELSE [hist EXCEPT ![id].archived = 1]
           ELSE /\ products' = products
                /\ hist' = hist
                /\ Respond(s, IF Unmodified(loaded, local) THEN 200 ELSE 400)
  /\ UNCHANGED <<now, hostOffset, caller, logs, nextProductId, nextLogId, maxInFlight,
                 budget>>

SoftDeleteFind(s) == FindForFlag(s, "soft_find", "soft_save")
SoftDeleteSave(s) == SaveFlag(s, "soft_save", FALSE)
RestoreFind(s)    == FindForFlag(s, "restore_find", "restore_save")
RestoreSave(s)    == SaveFlag(s, "restore_save", TRUE)

-----------------------------------------------------------------------------
(* DELETE /delete/:id *)

DeleteStart(s, id) ==
  /\ CanStart(s) /\ caller \in Allowed("delete")
  /\ budget.events > 0
  /\ budget' = [budget EXCEPT !.events = @ - 1]
  /\ reqs' = [reqs EXCEPT ![s] = [Idle EXCEPT !.op = "delete", !.id = id,
                                              !.pc = "delete_product"]]
  /\ resp' = 0
  /\ exported' = NoExport
  /\ UNCHANGED <<now, hostOffset, caller, products, logs, nextProductId, nextLogId,
                 maxInFlight, hist>>

\* await Product.findByIdAndDelete(req.params.id); 404 when there is none
DeleteProduct(s) ==
  /\ reqs[s].pc = "delete_product"
  /\ LET id == reqs[s].id
     IN  IF id \in DOMAIN products
           THEN /\ products' = [i \in DOMAIN products \ {id} |-> products[i]]
                /\ Goto(s, "delete_logs")
           ELSE /\ products' = products
                /\ Respond(s, 404)
  /\ UNCHANGED <<now, hostOffset, caller, logs, nextProductId, nextLogId, maxInFlight,
                 budget, hist>>

\* await TransactionLog.deleteMany({productId: req.params.id}); 200
DeleteLogs(s) ==
  /\ reqs[s].pc = "delete_logs"
  /\ logs' = [i \in {j \in DOMAIN logs : logs[j].productId # reqs[s].id}
                |-> logs[i]]
  /\ Respond(s, 200)
  /\ UNCHANGED <<now, hostOffset, caller, products, nextProductId, nextLogId,
                 maxInFlight, budget, hist>>

\* a storage call of the admin routes rejects: catch (err) -> 400
AdminFault(s) ==
  /\ reqs[s].pc \in {"soft_find", "soft_save", "restore_find", "restore_save",
                     "delete_product", "delete_logs"}
  /\ budget.events > 0
  /\ budget' = [budget EXCEPT !.events = @ - 1, !.faulted = TRUE]
  /\ Respond(s, 400)
  /\ UNCHANGED <<now, hostOffset, caller, products, logs, nextProductId, nextLogId,
                 maxInFlight, hist>>

-----------------------------------------------------------------------------
(* Specifications *)

ProductIds == 1..MaxAdds        \* the ids a request may name
Empty      == [x \in {} |-> NULL]

InitStore ==
  /\ now = StartTime
  /\ hostOffset \in HostOffsets
  /\ caller \in Roles
  /\ products = Empty
  /\ logs = Empty
  /\ nextProductId = 1
  /\ nextLogId = 1
  /\ reqs = [s \in Slots |-> Idle]
  /\ resp = 0
  /\ exported = NoExport
  /\ hist = Empty

\* requests may overlap, on a host in Asia/Kolkata (the hosts of other
\* timezones are explored one request at a time, under InitSeq)
Init ==
  /\ InitStore
  /\ hostOffset = ISTOffset
  /\ maxInFlight = Cardinality(Slots)
  /\ budget = [adds |-> MaxAdds, events |-> MaxEvents, faulted |-> FALSE]

\* one request at a time
InitSeq ==
  /\ InitStore
  /\ maxInFlight = 1
  /\ budget = [adds |-> MaxAdds, events |-> MaxEventsSeq, faulted |-> FALSE]

\* a store that has seen n sequential creates of one name, each but the first
\* followed by the hard delete of the product created before it, ends with
\* the creates n-1 and n stored.  Every lookup of that run found one product,
\* the latest; the k-th create of such a run stored the sku numbered k when
\* generateSKU maps each sku of the run to the next.
SequentialSkus(name, n) ==
  LET initials == ToUpperCase(Slice(name, 0, 2))
  IN  \A k \in 1..n :
        NextSKU(name, IF k = 1 THEN NULL
                      ELSE [sku |-> FormatSKU(initials, k - 1)])
          = FormatSKU(initials, k)

\* how many creates the store has seen at first: none, and as many as bring
\* the next suffix to two and to three digits
StoredCounts == {0, 1, 2, 9, 10, MaxStored - 1, MaxStored}

\* one request at a time, on a store that has seen n sequential creates
InitSku ==
  /\ now = StartTime
  /\ hostOffset = ISTOffset
  /\ caller \in Roles
  /\ \E n \in StoredCounts, name \in Names, q \in Quantities,
        low \in LowQuantities :
       LET kept == {i \in 1..n : i >= n - 1}
           skuOf(i) == FormatSKU(ToUpperCase(Slice(name, 0, 2)), i)
       IN  /\ SequentialSkus(name, n)
           /\ products = [i \in kept |-> NewProduct(i, name, skuOf(i), q, low)]
           /\ logs = [i \in kept |->
                        NewTransactionLog(i, i, StartTime, q, 0, 0, q,
                                          "Initial stock entry")]
           /\ hist = [i \in 1..n |->
                        NewHist(name, NewProduct(i, name, skuOf(i), q, low),
                                StartTime)]
           /\ nextProductId = n + 1
           /\ nextLogId = n + 1
  /\ reqs = [s \in Slots |-> Idle]
  /\ resp = 0
  /\ exported = NoExport
  /\ maxInFlight = 1
  /\ budget = [adds |-> MaxAdds, events |-> MaxEventsSku, faulted |-> FALSE]

\* one request at a time, on a store in which one product has been created
InitStocked ==
  /\ now = StartTime
  /\ hostOffset \in HostOffsets
  /\ caller \in Roles
  /\ \E name \in Names, q \in StockedQuantities, low \in LowQuantities :
       LET p == NewProduct(1, name, NextSKU(name, NULL), q, low)
       IN  /\ products = (1 :> p)
           /\ logs = (1 :> NewTransactionLog(1, 1, StartTime, q, 0, 0, q,
                                             "Initial stock entry"))
           /\ hist = (1 :> NewHist(name, p, StartTime))
  /\ nextProductId = 2
  /\ nextLogId = 2
  /\ reqs = [s \in Slots |-> Idle]
  /\ resp = 0
  /\ exported = NoExport
  /\ maxInFlight = 1
  /\ budget = [adds |-> MaxAdds - 1, events |-> MaxEventsStocked,
               faulted |-> FALSE]

Next ==
  \/ Tick
  \/ \E s \in Slots :
       \/ \E route \in Routes : AuthReject(s, route)
       \/ List(s)
       \/ \E format \in ExportFormats, type \in ExportTypes :
            Export(s, format, type)
       \/ ExportFault(s)
       \/ \E name \in Names, q \in Quantities, low \in LowQuantities :
            AddStart(s, name, q, low)
       \/ AddGenerateSKU(s)
       \/ AddSaveProduct(s)
       \/ AddSaveLog(s)
       \/ AddFault(s)
       \/ \E id \in ProductIds, d \in Deltas : UpdStart(s, id, d)
       \/ UpdFindProduct(s)
       \/ UpdFindToday(s)
       \/ UpdFindLast(s)
       \/ UpdSaveTxn(s)
       \/ UpdSaveProduct(s)
       \/ UpdFault(s)
       \/ \E id \in ProductIds : SoftDeleteStart(s, id)
       \/ SoftDeleteFind(s)
       \/ SoftDeleteSave(s)
       \/ \E id \in ProductIds : RestoreStart(s, id)
       \/ RestoreFind(s)
       \/ RestoreSave(s)
       \/ \E id \in ProductIds : DeleteStart(s, id)
       \/ DeleteProduct(s)
       \/ DeleteLogs(s)
       \/ AdminFault(s)

Spec    == Init /\ [][Next]_vars
SpecSeq == InitSeq /\ [][Next]_vars
SpecSku == InitSku /\ [][Next]_vars
SpecStocked == InitStocked /\ [][Next]_vars

-----------------------------------------------------------------------------
(* Properties of the ledger *)

NoFault    == ~budget.faulted                \* no storage call has failed
Quiet      == InFlight = {}                  \* no request is being served
Balanced(d)  == d.closingQty = d.openingQty + d.addedQty - d.soldQty
Clamp(x)     == IF x < 0 THEN 0 ELSE x

\* the movements of product p so far were made one after the other, all on
\* the business day d, with quantities >= 0, and all have returned 200
AllOnDay(p, d) ==
  /\ Quiet /\ NoFault
  /\ p \in DOMAIN products
  /\ hist[p].ok >= 1 /\ hist[p].ok = hist[p].calls
  /\ ~hist[p].neg
  /\ hist[p].days = {d}

\* C1: after sequential movements on a fresh product that all fall within one
\* business day, the row of the day (the row the latest of them wrote) has
\* the creation quantity as opening and
\* closing = opening + sum of addQty - sum of sellQty.
C1_DayTotals ==
  \A p \in DOMAIN hist :
    AllOnDay(p, ISTDay(now)) =>
      LET r == logs[hist[p].last[2]]
      IN  /\ r.openingQty = hist[p].q0
          /\ r.closingQty = hist[p].q0 + hist[p].adds - hist[p].sells

\* C2: with rows on two or more business days, a row's opening is the closing
\* of the product's row for the most recent earlier business day.
C2_OpeningIsPriorClosing ==
  (Quiet /\ NoFault) =>
    \A r \in {x \in Range(logs) : ~hist[x.productId].neg} :
      \A r2 \in LogsOf(r.productId) :
        (/\ ISTDay(r2.date) < ISTDay(r.date)
         /\ \A r3 \in LogsOf(r.productId) :
              ISTDay(r3.date) < ISTDay(r.date) => ISTDay(r3.date) <= ISTDay(r2.date))
        => r.openingQty = r2.closingQty

\* C3: at most one TransactionLog row per product and business day.
C3_OneRowPerDay ==
  \A r1, r2 \in Range(logs) :
    (r1.productId = r2.productId /\ ISTDay(r1.date) = ISTDay(r2.date))
      => r1._id = r2._id

\* C4: every stored row has closingQty = openingQty + addedQty - soldQty.
C4_RowBalance == \A r \in Range(logs) : Balanced(r)

\* C5: every stored product has closingQty = openingQty + addedQty - soldQty
\* and quantity = closingQty.
C5_SnapshotBalance ==
  \A p \in Range(products) : Balanced(p) /\ p.quantity = p.closingQty

\* C6: while no create or movement is in progress on a product, its snapshot
\* equals its most recent row (stated for a product whose only row is the
\* initial one, no storage call having failed, on a host that runs in the
\* business timezone).
C6_SnapshotIsLastRow ==
  \A p \in DOMAIN products :
    (/\ NoFault /\ hostOffset = ISTOffset /\ ~hist[p].neg
     /\ \A s \in InFlight : reqs[s].id # p
     /\ \A s \in InFlight : reqs[s].op # "add"
     /\ Cardinality(LogsOf(p)) = 1)
    => LET r == LastTxn(p)
       IN  /\ products[p].openingQty = r.openingQty
           /\ products[p].addedQty = r.addedQty
           /\ products[p].soldQty = r.soldQty
           /\ products[p].closingQty = r.closingQty
           /\ products[p].quantity = r.closingQty

\* C7: two consecutive movements of a product made on the same business day
\* write the same row, whatever the host timezone and the time of day.
C7_SameDaySameRow ==
  \A p \in DOMAIN hist :
    LET h == hist[p]
    IN  (~h.neg /\ h.last # <<>> /\ h.prev # <<>> /\ h.last[1] = h.prev[1])
          => h.last[2] = h.prev[2]

\* C8: the save of a merged row writes the totals the call computed from the
\* row as it loaded it (loaded value + own delta), whatever the row holds by
\* then; overlapping calls therefore lose a delta.
C8_MergeOverwrites ==
  [][\A s \in Slots :
       (/\ reqs[s].pc = "upd_saveTxn" /\ ~reqs[s].isNew
        /\ reqs'[s].pc = "upd_saveProduct"
        /\ reqs[s].todayTxn._id \in DOMAIN logs)
       => LET id     == reqs[s].todayTxn._id
              loaded == reqs[s].loadedTxn
          IN  /\ reqs[s].addQty # 0 =>
                   logs'[id].addedQty = loaded.addedQty + reqs[s].addQty
              /\ reqs[s].sellQty # 0 =>
                   logs'[id].soldQty = loaded.soldQty + reqs[s].sellQty
              /\ logs'[id].closingQty =
                   loaded.openingQty + (loaded.addedQty + reqs[s].addQty)
                                     - (loaded.soldQty + reqs[s].sellQty)]_vars

\* C8 (case): two movements of one day have both returned 200, the product
\* has a single row, and the row's closing is not opening + adds - sells.
C8_LostUpdate ==
  \E p \in DOMAIN hist :
    /\ Quiet /\ NoFault
    /\ hist[p].ok = 2 /\ hist[p].calls = 2
    /\ Cardinality(hist[p].days) = 1
    /\ Cardinality(LogsOf(p)) = 1
    /\ \A r \in LogsOf(p) :
         r.closingQty # r.openingQty + hist[p].adds - hist[p].sells

\* C9: a negative addQty or sellQty counts as 0 on the row that is written.
C9_NegativeClamped ==
  [][\A s \in Slots :
       (/\ reqs[s].pc = "upd_saveTxn" /\ reqs'[s].pc = "upd_saveProduct"
        /\ reqs[s].todayTxn._id \in DOMAIN logs')
       => LET id   == reqs[s].todayTxn._id
              was  == IF reqs[s].isNew
                        THEN [addedQty |-> 0, soldQty |-> 0,
                              closingQty |-> reqs[s].todayTxn.openingQty]
                        ELSE logs[id]
          IN  /\ logs'[id].addedQty = was.addedQty + Clamp(reqs[s].addQty)
              /\ logs'[id].soldQty = was.soldQty + Clamp(reqs[s].sellQty)
              /\ logs'[id].closingQty =
                   was.closingQty + Clamp(reqs[s].addQty) - Clamp(reqs[s].sellQty)]_vars

\* C10: the row of the first movement of a product opens with the creation
\* quantity; and a row built for a product without any row opens with the
\* product's current quantity.
C10_FirstOpening ==
  /\ [](\A p \in DOMAIN hist :
          hist[p].first # <<>> => hist[p].first[1] = hist[p].q0)
  /\ [][\A s \in Slots :
          (/\ reqs[s].pc = "upd_findLast" /\ reqs'[s].pc = "upd_saveTxn"
           /\ LogsOf(reqs[s].id) = {}
           /\ reqs[s].id \in DOMAIN products)
          => reqs'[s].todayTxn.openingQty = products[reqs[s].id].quantity]_vars

\* C10 (case): the first movement of a product fell on a later business day
\* than its creation and its new row has been written.
C10_FirstOnLaterDay ==
  \E p \in DOMAIN hist :
    /\ hist[p].first # <<>> /\ hist[p].prev = <<>>
    /\ hist[p].last[1] > hist[p].cday
    /\ hist[p].last[2] \in DOMAIN logs
    /\ logs[hist[p].last[2]].remarks = "New day transaction"

-----------------------------------------------------------------------------
(* Properties of create, delete, archive and restore *)

\* str is the upper-cased form of input
IsUpperOf(str, input) ==
  /\ Len(str) = Len(input)
  /\ \A i \in DOMAIN input :
       /\ IndexIn(str[i], Lower) = 0
       /\ \/ str[i] = input[i]
          \/ /\ IndexIn(input[i], Lower) > 0
             /\ IndexIn(str[i], Upper) = IndexIn(input[i], Lower)

\* nothing but its creation has been asked of product p
Untouched(p) ==
  /\ p \in DOMAIN products
  /\ hist[p].calls = 0 /\ hist[p].archived = 0 /\ hist[p].restored = 0

\* the rows that POST /add wrote for product p
InitialRows(p, rows) ==
  {r \in Range(rows) : r.productId = p /\ r.remarks = "Initial stock entry"}

\* C11 (as stated): a created product has the upper-cased name,
\* openingQty = addedQty = closingQty = quantity, soldQty = 0, isActive = true.
C11_CreateAsStated ==
  \A p \in DOMAIN products :
    Untouched(p) =>
      /\ IsUpperOf(products[p].name, hist[p].name)
      /\ products[p].openingQty = hist[p].q0
      /\ products[p].addedQty = hist[p].q0
      /\ products[p].closingQty = hist[p].q0
      /\ products[p].soldQty = 0
      /\ products[p].isActive

\* C11 (amended): a created product has the upper-cased name, openingQty =
\* closingQty = quantity, addedQty = soldQty = 0 and isActive = true, and the
\* create that returns 201 has written exactly one row for it, the only one
\* with remarks "Initial stock entry", with opening = closing = quantity.
C11_Create ==
  /\ [](\A p \in DOMAIN products :
          Untouched(p) =>
            /\ IsUpperOf(products[p].name, hist[p].name)
            /\ products[p].openingQty = hist[p].q0
            /\ products[p].addedQty = 0
            /\ products[p].closingQty = hist[p].q0
            /\ products[p].quantity = hist[p].q0
            /\ products[p].soldQty = 0
            /\ products[p].isActive)
  /\ [][\A s \in Slots :
          (reqs[s].pc = "add_saveLog" /\ resp' = 201 /\ reqs'[s].pc = "idle")
          => LET p == reqs[s].id
             IN  /\ InitialRows(p, logs) = {}
                 /\ Cardinality(InitialRows(p, logs')) = 1
                 /\ Cardinality(DOMAIN logs') = Cardinality(DOMAIN logs) + 1
                 /\ \A r \in InitialRows(p, logs') :
                      /\ r.openingQty = hist[p].q0 /\ r.closingQty = hist[p].q0
                      /\ r.addedQty = 0 /\ r.soldQty = 0]_vars

\* C11 (case): a create has just returned 201 and its product is stored with
\* its initial row.
C11_Created ==
  \E p \in DOMAIN products :
    /\ resp = 201 /\ Untouched(p)
    /\ products[p].name = <<"N", "E", "C", "K", "L", "A", "C", "E">>
    /\ Cardinality(InitialRows(p, logs)) = 1

\* C12: on an empty store, create "Necklace" with quantity 10 gives sku "NE01",
\* opening 10, closing 10; addQty = 5 on the same business day gives closing
\* 15; sellQty = 3 on the next business day writes a new row with opening 15
\* and closing 12, and the product's quantity is 12.
C12_Necklace ==
  (/\ Quiet /\ NoFault /\ 1 \in DOMAIN products
   /\ hist[1].name = <<"N", "e", "c", "k", "l", "a", "c", "e">>
   /\ hist[1].q0 = 10 /\ hist[1].archived = 0 /\ hist[1].ok = hist[1].calls)
  => LET h == hist[1]
         p == products[1]
     IN  /\ p.sku = <<"N", "E", "0", "1">>
         /\ h.calls = 0 => p.openingQty = 10 /\ p.closingQty = 10
         /\ (h.calls = 1 /\ h.lastDelta = <<5, 0>> /\ h.last[1] = h.cday)
              => p.closingQty = 15 /\ logs[h.last[2]].closingQty = 15
         /\ (/\ h.calls = 2 /\ h.adds = 5 /\ h.sells = 3
             /\ h.lastDelta = <<0, 3>>
             /\ h.prev[1] = h.cday /\ h.last[1] = h.cday + 1
             /\ ISTDay(logs[h.prev[2]].date) = h.cday)
              => /\ h.last[2] # h.prev[2]
                 /\ logs[h.last[2]].remarks = "New day transaction"
                 /\ logs[h.last[2]].openingQty = 15
                 /\ logs[h.last[2]].closingQty = 12
                 /\ p.quantity = 12

\* C13: once product p has been removed by a hard delete and no operation on
\* p is in progress, no TransactionLog row has productId = p.
C13_NoOrphans ==
  \A p \in DOMAIN hist :
    (p \notin DOMAIN products /\ \A s \in InFlight : reqs[s].id # p)
      => LogsOf(p) = {}

\* C14: a step of softDelete or restore changes nothing but the isActive flag
\* of its own product: no row and no other product is created, changed or
\* removed; the save sets the flag of the product it loaded; and a product
\* that was only archived and restored is as it was created.
C14_FlagOnly ==
  /\ [][\A s \in Slots :
          (reqs[s].op \in {"soft-delete", "restore"} /\ reqs'[s] # reqs[s])
          => /\ logs' = logs
             /\ DOMAIN products' = DOMAIN products
             /\ \A p \in DOMAIN products :
                  /\ p # reqs[s].id => products'[p] = products[p]
                  /\ [products'[p] EXCEPT !.isActive = TRUE]
                       = [products[p] EXCEPT !.isActive = TRUE]
             /\ (/\ resp' = 200
                 /\ reqs[s].id \in DOMAIN products
                 /\ products[reqs[s].id] = reqs[s].product)
                => products'[reqs[s].id].isActive = (reqs[s].op = "restore")]_vars
  /\ [](\A p \in DOMAIN products :
          hist[p].calls = 0 =>
            [products[p] EXCEPT !.isActive = TRUE] = hist[p].doc)

\* C14 (case): an active product has been archived, then restored, and is
\* active again.
C14_ArchivedThenRestored ==
  \E p \in DOMAIN products :
    /\ Quiet /\ NoFault
    /\ hist[p].archived = 1 /\ hist[p].restored = 1
    /\ products[p].isActive /\ resp = 200

\* C15: the sku that a create run on its own stores differs from the sku of
\* every product already stored (same 2-letter prefix), also once the
\* suffixes have three digits.
C15_FreshSKU ==
  [][\A s \in Slots :
       (reqs[s].pc = "add_saveProduct" /\ reqs'[s].pc = "add_saveLog")
       => \A p \in Range(products) :
            products'[reqs'[s].id].sku # p.sku]_vars

\* C16: the product save of a create stores the sku its lookup returned,
\* whatever the store holds by then: nothing compares it with the stored skus,
\* so two creates whose lookups both ran before either save end with one sku.
C16_SaveKeepsSKU ==
  [][\A s \in Slots :
       (/\ reqs[s].pc = "add_saveProduct" /\ reqs'[s] # reqs[s]
        /\ budget' = budget)
       => /\ reqs'[s].pc = "add_saveLog"
          /\ nextProductId \notin DOMAIN products
          /\ nextProductId \in DOMAIN products'
          /\ products'[nextProductId].sku = reqs[s].sku]_vars

\* C16 (case): two creates have both completed and their products are stored
\* with the same sku.
C16_DuplicateSKU ==
  \E p1, p2 \in DOMAIN products :
    /\ p1 # p2 /\ products[p1].sku = products[p2].sku
    /\ Quiet /\ NoFault
    /\ InitialRows(p1, logs) # {} /\ InitialRows(p2, logs) # {}

StorageFails(s) ==
  /\ ~Free(s) /\ reqs'[s] = Idle
  /\ budget'.events = budget.events - 1

\* C18: a request in which a storage call fails is answered 500, not the 400
\* of a request with bad input.
C18_StorageFailureIs500 ==
  [][\A s \in Slots : StorageFails(s) => resp' = 500]_vars

\* C19: a handler runs only for a caller whose role its route is declared for;
\* only a run of an admin changes an isActive flag or removes a product or a
\* row; a run of a caller without a verified role changes no stored state; a
\* refused request changes nothing; the list routes answer every caller.
C19_Gating ==
  [][/\ \A s \in Slots :
          (Free(s) /\ reqs'[s].pc # "idle") => caller \in Allowed(reqs'[s].op)
     /\ (\/ \E p \in DOMAIN products :
               \/ p \notin DOMAIN products'
               \/ products'[p].isActive # products[p].isActive
         \/ \E r \in DOMAIN logs : r \notin DOMAIN logs')
        => caller = "admin"
     /\ (products' # products \/ logs' # logs) => caller \in {"admin", "staff"}
     /\ resp' \in {401, 403} =>
          /\ caller # "admin"
          /\ UNCHANGED <<products, logs, reqs, nextProductId, nextLogId>>
     /\ (Quiet /\ budget.events > 0) => ENABLED List(1)]_vars

\* C19 (case): a staff caller whose create went through has just been
\* refused (403) on an admin route, the product being active and stored.
C19_StaffRefused ==
  /\ caller = "staff" /\ resp = 403
  /\ \E p \in DOMAIN products : products[p].isActive /\ LogsOf(p) # {}

\* C20: after movements of quantities >= 0 made one after the other on two or
\* more business days, without a storage failure, the product carries the
\* lifetime totals: addedQty the sum of every addQty applied since creation,
\* soldQty the sum of every sellQty, openingQty the creation quantity.
C20_LifetimeTotals ==
  \A p \in DOMAIN products :
    (/\ Quiet /\ NoFault /\ hostOffset = ISTOffset
     /\ ~hist[p].neg /\ hist[p].ok = hist[p].calls
     /\ Cardinality(hist[p].days) >= 2)
      => /\ products[p].addedQty = hist[p].adds
         /\ products[p].soldQty = hist[p].sells
         /\ products[p].openingQty = hist[p].q0

-----------------------------------------------------------------------------
(* Properties of the exports and of the update route *)

\* C21: an export with selector "yesterday" sends exactly the rows whose
\* updatedAt lies in the business-timezone calendar day before the one that
\* contains the current instant, and none last modified on the current
\* business day, for every host timezone.
C21_Yesterday ==
  exported.type = "yesterday" =>
    /\ exported.rows =
         {r \in DOMAIN logs : ISTDay(logs[r].updatedAt) = ISTDay(now) - 1}
    /\ \A r \in exported.rows : ISTDay(logs[r].updatedAt) # ISTDay(now)

\* C21 (case): a "yesterday" export has just answered 200 with a row of the
\* day before, leaving out a row modified on the current business day less
\* than 24 hours ago.
C21_YesterdayExported ==
  /\ exported.type = "yesterday" /\ resp = 200
  /\ exported.rows # {}
  /\ \E r \in DOMAIN logs :
       /\ r \notin exported.rows
       /\ ISTDay(logs[r].updatedAt) = ISTDay(now)
       /\ now - logs[r].updatedAt < DayLen

\* the snapshot fields of product document d are those of row r
SnapshotIs(d, r) ==
  /\ d.openingQty = r.openingQty /\ d.addedQty = r.addedQty
  /\ d.soldQty = r.soldQty /\ d.closingQty = r.closingQty
  /\ d.quantity = r.closingQty

\* C22: when the product save of a movement has failed after its row was
\* saved, the next movement on the product that returns 200 leaves the
\* snapshot equal to the row it wrote, and the quantity equal to the
\* creation quantity plus every delta the log has taken, each once.
C22_RepairedFromLog ==
  \A p \in DOMAIN products :
    (Quiet /\ hist[p].torn = 2 /\ hist[p].last[2] \in DOMAIN logs)
      => /\ SnapshotIs(products[p], logs[hist[p].last[2]])
         /\ products[p].quantity = hist[p].q0 + hist[p].logged

\* C23: a movement is never refused for want of stock: an update answers
\* 200, or 404 for a product that is not stored, or 400 after a storage
\* failure; and one that returns 200 on a balance that is or becomes negative
\* (no storage call having failed) leaves the row it wrote with closingQty =
\* openingQty + addedQty - soldQty and the product with quantity = that
\* closingQty = the balance before it + addQty - sellQty.
C23_OversellKept ==
  [][\A s \in Slots :
       (reqs[s].op = "update" /\ resp' # 0) =>
         /\ \/ resp' = 200
            \/ resp' = 404 /\ reqs[s].id \notin DOMAIN products
            \/ resp' = 400 /\ budget'.faulted
         /\ (/\ resp' = 200 /\ NoFault
             /\ reqs[s].id \in DOMAIN products
             /\ \/ products[reqs[s].id].quantity < 0
                \/ products[reqs[s].id].quantity
                     + reqs[s].addQty - reqs[s].sellQty < 0)
            => LET id  == reqs[s].id
                   row == logs[reqs[s].todayTxn._id]
               IN  /\ Balanced(row)
                   /\ products'[id].quantity = row.closingQty
                   /\ products'[id].quantity =
                        products[id].quantity + reqs[s].addQty - reqs[s].sellQty]_vars

\* C24: a stored row keeps its openingQty (and its productId, date and
\* remarks) through every step; a step changes a row only by the row save of
\* a movement, in addedQty, soldQty and closingQty (and the save's
\* timestamp), and only of a movement made on the row's own business day:
\* movements of later days, softDelete and restore change nothing in it.
C24_OpeningFixed ==
  [][\A r \in DOMAIN logs \cap DOMAIN logs' :
       /\ logs'[r].openingQty = logs[r].openingQty
       /\ logs'[r].productId = logs[r].productId
       /\ logs'[r].date = logs[r].date
       /\ logs'[r].remarks = logs[r].remarks
       /\ logs'[r] # logs[r] =>
            \E s \in Slots :
              /\ reqs[s].op = "update" /\ reqs[s].pc = "upd_saveTxn"
              /\ reqs[s].todayTxn._id = r
              /\ reqs[s].day = ISTDay(logs[r].date)]_vars

\* the rows a step creates or changes
Written(before, after) ==
  {r \in DOMAIN after : r \notin DOMAIN before \/ after[r] # before[r]}

\* C25: a step of a movement on product p creates and removes no product
\* and no row but its own, leaves every other product as it is, and writes
\* at most one row (a movement has one row save): a row of p, and when the
\* row was already stored, the row of the movement's own business day.
C25_OwnDocuments ==
  [][\A s \in Slots :
       (reqs[s].op = "update" /\ reqs'[s] # reqs[s]) =>
         LET id == reqs[s].id
         IN  /\ DOMAIN products' = DOMAIN products
             /\ \A q \in DOMAIN products : q # id => products'[q] = products[q]
             /\ DOMAIN logs \subseteq DOMAIN logs'
             /\ Cardinality(Written(logs, logs')) <= 1
             /\ \A r \in Written(logs, logs') :
                  /\ logs'[r].productId = id
                  /\ r \in DOMAIN logs =>
                       ISTDay(logs[r].date) = reqs[s].day]_vars

\* C26: after creates and movements made one after the other, with
\* quantities >= 0 and without a storage failure, on any business days and
\* any host, a product's quantity is its creation quantity plus the sum of
\* the addQty minus the sum of the sellQty applied to it.
C26_Conservation ==
  \A p \in DOMAIN products :
    (Quiet /\ NoFault /\ ~hist[p].neg /\ hist[p].ok = hist[p].calls)
      => products[p].quantity = hist[p].q0 + hist[p].adds - hist[p].sells

\* C27: whenever no create is in progress, every stored product has at
\* least one row; so a create that has answered with an error has left no
\* product behind without its initial row.
C27_CreateAtomic ==
  \A p \in DOMAIN products :
    (\A s \in Slots : reqs[s].op # "add") => LogsOf(p) # {}

\* C28: when the two latest movements of a product, made one after the
\* other without a storage failure, fall on different business days (the
\* earlier one begun and saved within its day), they wrote different rows,
\* whatever the host: the later one a new row whose openingQty is the
\* closingQty of the row the earlier one wrote.
C28_NewDayNewRow ==
  \A p \in DOMAIN products :
    LET h == hist[p]
    IN  (/\ Quiet /\ NoFault /\ h.ok = h.calls
         /\ h.last # <<>> /\ h.prev # <<>> /\ h.last[1] # h.prev[1]
         /\ h.last[2] \in DOMAIN logs /\ h.prev[2] \in DOMAIN logs
         /\ ISTDay(logs[h.prev[2]].updatedAt) = h.prev[1])
          => /\ h.last[2] # h.prev[2]
             /\ logs[h.last[2]].remarks = "New day transaction"
             /\ logs[h.last[2]].openingQty = logs[h.prev[2]].closingQty

\* the same document with the archive flag cleared
Activated(d) == [d EXCEPT !.isActive = TRUE]

====
